---- MODULE Spec2Model ----
(***************************************************************************)
(* Model of auth-service/main.go: the middleware pipeline                  *)
(* (authMiddleware, rateLimitMiddleware, loggingMiddleware), the endpoint  *)
(* handlers and the two backing stores (the users table in Postgres, the   *)
(* rate_limit:* and session:* keys in Redis).                              *)
(*                                                                         *)
(* Every in-flight request occupies a slot; a slot's pc is the next store  *)
(* call of the request (the only suspension points of a handler), so the   *)
(* actions interleave exactly where goroutines can interleave.             *)
(* Time is counted in seconds; keys carry their remaining time to live.    *)
(* The variables seen, faulted, age, firstIncr, sessAge, issued, owner and *)
(* reg and the flags of a request record what happened; no action reads    *)
(* them to decide what the program does.                                   *)
(***************************************************************************)
EXTENDS Integers, Sequences, FiniteSets, TLC

\* ---------------------------------------------------------------- bounds
MaxCount == 12         \* requests of one client per window that are explored
MaxCountAuth == 2      \* the same cap in the credential/session specification
MaxRegs == 2           \* /register requests explored per email

\* ------------------------------------------------------ program constants
Limit == 10            \* count > 10 is rejected
RateWindow == 60       \* time.Minute, in seconds
SessionTTL == 86400    \* time.Hour*24, in seconds

StatusOK == 200
StatusCreated == 201
StatusBadRequest == 400
StatusUnauthorized == 401
StatusConflict == 409
StatusTooManyRequests == 429
StatusInternalServerError == 500

\* ------------------------------------------------------------ value sets
SlotOrder == <<"g1", "g2">>
Slots == {SlotOrder[i] : i \in 1..Len(SlotOrder)}
IPs == {"10.0.0.1:5000", "10.0.0.2:5000"}
Emails == {"a@x.com", "b@x.com"}
Passwords == {"pw1", "pw2"}
Salts == {"salt1"}
TokenOrder == <<"uuid1", "uuid2">>
Tokens == {TokenOrder[i] : i \in 1..Len(TokenOrder)}
NoCookie == "-"
BogusCookie == "garbage"
NoEmail == "-"
Empty == ""
NoTTL == -1
NoKey == [email |-> NoEmail, ttl |-> 0]
Outcomes == {"ok", "err", "errApplied"}
Clients == {"10.0.0.1:5000"}
NoRegs == [arrived |-> 0, created |-> 0, conflict |-> 0, failed |-> 0, dirty |-> FALSE]

VARIABLES users, sessions, rate, req, issued, owner, sessAge, seen, faulted, age, firstIncr, reg

vars == <<users, sessions, rate, req, issued, owner, sessAge, seen, faulted, age, firstIncr,
          reg>>

\* --------------------------------------------------------------- helpers
Min(a, b) == IF a < b THEN a ELSE b

\* bcrypt.GenerateFromPassword: a salted digest of the password.
GenerateFromPassword(salt, pw) == <<"$2a$10$", salt, pw>>

\* bcrypt.CompareHashAndPassword: re-hash the candidate under the digest's
\* salt and compare; TRUE when the error is nil.
CompareHashAndPassword(hash, pw) ==
    /\ Len(hash) = 3
    /\ hash = GenerateFromPassword(hash[2], pw)

\* The users table: rows in insertion order.
HasEmail(tbl, e) == \E i \in 1..Len(tbl) : tbl[i].email = e

\* SELECT password_hash FROM users WHERE email=$1, first row (QueryRow).
StoredHash(tbl, e) ==
    LET i == CHOOSE i \in 1..Len(tbl) :
                 /\ tbl[i].email = e
                 /\ \A j \in 1..(i - 1) : tbl[j].email # e
    IN tbl[i].password_hash

\* Variant of UniqueViolation: the email column has no UNIQUE constraint.
UniqueViolation_None(tbl, e) == FALSE

\* email TEXT UNIQUE NOT NULL: the INSERT fails when the email has a row.
UniqueViolation(tbl, e) == HasEmail(tbl, e)

\* INSERT INTO users (email, password_hash) VALUES ($1, $2).
InsertUser(tbl, e, hash) == Append(tbl, [email |-> e, password_hash |-> hash])

\* Variant of ExecInsert: INSERT ... ON CONFLICT (email) DO UPDATE SET
\* password_hash: a second registration replaces the stored digest.
ExecInsert_Upsert(tbl, e, hash) ==
    IF UniqueViolation(tbl, e)
    THEN [i \in 1..Len(tbl) |->
            IF tbl[i].email = e THEN [tbl[i] EXCEPT !.password_hash = hash] ELSE tbl[i]]
    ELSE InsertUser(tbl, e, hash)

\* The table after db.Exec applied the INSERT: a row more, or, on a
\* uniqueness violation, the table as it was.
ExecInsert(tbl, e, hash) ==
    IF UniqueViolation(tbl, e) THEN tbl ELSE InsertUser(tbl, e, hash)

\* A slot with no request in it.
IdleReq ==
    [pc |-> "idle", path |-> "-", ip |-> "-", email |-> NoEmail, pw |-> "-",
     bodyOk |-> TRUE, cookie |-> NoCookie,
     ctxEmail |-> NoEmail, count |-> 0,
     status |-> 0, body |-> <<>>, setCookie |-> NoCookie,
     wwStatus |-> 0, logged |-> 0, logStatus |-> 0,
     authRan |-> FALSE, counted |-> FALSE, fwd |-> FALSE, over |-> FALSE,
     rlFault |-> FALSE, incrErr |-> FALSE, storeErr |-> FALSE,
     hashErr |-> FALSE, valid |-> FALSE, known |-> FALSE, authLive |-> FALSE,
     blank |-> FALSE, steps |-> <<>>]

\* http.Error(w, msg, code) / w.WriteHeader(code) on the connection's own
\* ResponseWriter: the first status written is the one the client gets.
RawWriteHeader(r, code) ==
    IF r.status = 0 THEN [r EXCEPT !.status = code] ELSE r

\* responseWriter.WriteHeader: remember the code, then pass it down.
WriteHeader(r, code) ==
    RawWriteHeader([r EXCEPT !.wwStatus = code], code)

\* w.Write(text): an implicit WriteHeader(200) on the underlying writer when
\* no status was written yet (the embedded Write is not intercepted).
Write(r, text) ==
    [RawWriteHeader(r, StatusOK) EXCEPT !.body = text]

\* http.Error through the logger's wrapper (called by the endpoint handlers).
HttpError(r, msg, code) ==
    [WriteHeader(r, code) EXCEPT !.body = <<msg>>]

\* http.Error on the unwrapped writer (called by the outer middlewares).
RawHttpError(r, msg, code) ==
    [RawWriteHeader(r, code) EXCEPT !.body = <<msg>>]

\* loggingMiddleware, before next.ServeHTTP: wrap the writer, default 200.
LogBegin(r) == [r EXCEPT !.wwStatus = StatusOK]

\* loggingMiddleware, after next.ServeHTTP returned: one log.Printf line
\* carrying the captured status.  The decoded password dies with the handler.
LogEnd(r) ==
    [r EXCEPT !.logged = r.logged + 1, !.logStatus = r.wwStatus, !.pc = "done",
              !.pw = "-"]

\* Variant of RateLimitDecide: the comparison is off by one (count >= 10).
RateLimitDecide_OffByOne(r) ==
    IF r.count >= Limit
    THEN [RawHttpError(r, "Too Many Requests", StatusTooManyRequests)
             EXCEPT !.pc = "done", !.count = 0]
    ELSE [LogBegin(r) EXCEPT !.pc = "handler", !.fwd = TRUE, !.count = 0]

\* Variant of RateLimitDecide: the return after the 429 is missing, the
\* request goes on to the next handler.
RateLimitDecide_NoReturn(r) ==
    IF r.count > Limit
    THEN [LogBegin(RawHttpError(r, "Too Many Requests", StatusTooManyRequests))
             EXCEPT !.pc = "handler", !.fwd = TRUE, !.count = 0]
    ELSE [LogBegin(r) EXCEPT !.pc = "handler", !.fwd = TRUE, !.count = 0]

\* rateLimitMiddleware after the counter calls: reject above the limit,
\* otherwise call next (which is loggingMiddleware on every route).
RateLimitDecide(r) ==
    IF r.count > Limit
    THEN [RawHttpError(r, "Too Many Requests", StatusTooManyRequests)
             EXCEPT !.pc = "done", !.count = 0]
    ELSE [LogBegin(r) EXCEPT !.pc = "handler", !.fwd = TRUE, !.count = 0]

\* Variant of RateLimitFailOpen: the limiter rejects when its store fails.
RateLimitFailOpen_Closed(r) ==
    [RawHttpError(r, "Too Many Requests", StatusTooManyRequests)
        EXCEPT !.pc = "done", !.count = 0]

\* rateLimitMiddleware when Incr returned an error: serve the request.
RateLimitFailOpen(r) ==
    [LogBegin(r) EXCEPT !.pc = "handler", !.fwd = TRUE, !.count = 0]

\* Variant of NoCookieReject: the missing cookie gets the message of the
\* failed lookup.
NoCookieReject_SameMessage(r) ==
    [RawHttpError(r, "Session expired or invalid", StatusUnauthorized) EXCEPT !.pc = "done"]

\* authMiddleware, r.Cookie failed.
NoCookieReject(r) ==
    [RawHttpError(r, "Unauthorized", StatusUnauthorized) EXCEPT !.pc = "done"]

\* authMiddleware, rdb.Get failed (redis.Nil for a missing or expired key, or
\* a store error).
SessionReject(r) ==
    [RawHttpError(r, "Session expired or invalid", StatusUnauthorized) EXCEPT !.pc = "done"]

\* Variant of SessionResolved: next is called with the request as it came,
\* without the context value.
SessionResolved_NoValue(r, email) == [r EXCEPT !.pc = "rl"]

\* authMiddleware, rdb.Get succeeded: the email goes into the request context
\* and next (rateLimitMiddleware on /me) is called.
SessionResolved(r, email) == [r EXCEPT !.ctxEmail = email, !.pc = "rl"]

\* registerHandler, body did not decode.
RegisterBadBody(r) == LogEnd(HttpError(r, "Invalid request", StatusBadRequest))

\* registerHandler, bcrypt.GenerateFromPassword failed.
RegisterHashError(r) == LogEnd(HttpError(r, "Server error", StatusInternalServerError))

\* registerHandler, db.Exec returned an error (any error).
RegisterConflict(r) == LogEnd(HttpError(r, "User already exists", StatusConflict))

\* Variant of RegisterCreated: a successful registration also hands out a
\* session cookie.
RegisterCreated_WithCookie(r) ==
    LogEnd(Write(WriteHeader([r EXCEPT !.setCookie = TokenOrder[1]], StatusCreated),
                 <<"User registered">>))

\* registerHandler, the row is in.
RegisterCreated(r) == LogEnd(Write(WriteHeader(r, StatusCreated), <<"User registered">>))

\* loginHandler, body did not decode.
LoginBadBody(r) == LogEnd(HttpError(r, "Invalid request", StatusBadRequest))

\* Variant of LoginNoRow: an unknown email gets its own answer.
LoginNoRow_Distinct(r) == LogEnd(HttpError(r, "User not found", StatusUnauthorized))

\* loginHandler, QueryRow(...).Scan failed: no such row, or a store error.
LoginNoRow(r) == LogEnd(HttpError(r, "Invalid credentials", StatusUnauthorized))

\* loginHandler, bcrypt.CompareHashAndPassword failed.
LoginWrongPassword(r) == LogEnd(HttpError(r, "Invalid credentials", StatusUnauthorized))

\* Variant of LoginSessionError: the Set error is dropped and the login
\* answers as if the session were stored.
LoginSessionError_Ignored(r) == LogEnd(Write(r, <<"Logged in">>))

\* loginHandler, rdb.Set failed.
LoginSessionError(r) == LogEnd(HttpError(r, "Session error", StatusInternalServerError))

\* loginHandler, session stored: the cookie, then the body.
LoginOK(r, tok) == LogEnd(Write([r EXCEPT !.setCookie = tok], <<"Logged in">>))

\* Variant of SessionEntry: the session lives one second less than 24 hours.
SessionEntry_Short(email) == [email |-> email, ttl |-> SessionTTL - 1]

\* The value rdb.Set stores under session:<token>, with its time to live.
SessionEntry(email) == [email |-> email, ttl |-> SessionTTL]

\* meHandler, the type assertion on the context value failed.
MePanic(r) == [r EXCEPT !.steps = <<"meHandler", "panic">>, !.pc = "done"]

\* A slot that can take a request; a request takes the first one.
FreeSlot(s) == req[s].pc \in {"idle", "done"}
FirstFree(s) ==
    /\ FreeSlot(s)
    /\ \A i, j \in 1..Len(SlotOrder) : (SlotOrder[i] = s /\ j < i) => ~FreeSlot(SlotOrder[j])

\* uuid.New(): a token that was never handed out before.
NewToken ==
    LET i == CHOOSE i \in 1..Len(TokenOrder) :
                 /\ owner[TokenOrder[i]] = NoEmail
                 /\ \A j \in 1..(i - 1) : owner[TokenOrder[j]] # NoEmail
    IN TokenOrder[i]

\* Requests of client ip that have not yet reached the counter.
Pending(ip) == Cardinality({s \in Slots : req[s].ip = ip /\ req[s].pc \in {"auth", "rl"}})

\* ------------------------------------------------------------------ Init
Init ==
    /\ users = <<>>
    /\ sessions = [t \in Tokens |-> NoKey]
    /\ rate = [k \in IPs |-> [count |-> 0, ttl |-> NoTTL]]
    /\ req = [s \in Slots |-> IdleReq]
    /\ issued = {}
    /\ owner = [t \in Tokens |-> NoEmail]
    /\ sessAge = [t \in Tokens |-> 0]
    /\ seen = [k \in IPs |-> 0]
    /\ faulted = [k \in IPs |-> FALSE]
    /\ age = [k \in IPs |-> 0]
    /\ firstIncr = [k \in IPs |-> "-"]
    /\ reg = [e \in Emails \cup {Empty} |-> NoRegs]

\* ------------------------------------------------------------- the routes
\* main(): /me is authMiddleware(rateLimitMiddleware(loggingMiddleware(h)));
\* every other route is rateLimitMiddleware(loggingMiddleware(h)).
FirstLayer(path) == IF path = "/me" THEN "auth" ELSE "rl"

\* A request arrives on a free slot and enters the outermost layer of its
\* route.  cap bounds the requests of one client explored per window.
Arrive(s, path, ip, email, pw, bodyOk, cookie, cap) ==
    /\ FirstFree(s)
    /\ rate[ip].count + Pending(ip) < cap
    /\ req' = [req EXCEPT ![s] =
                 [IdleReq EXCEPT !.pc = FirstLayer(path), !.path = path, !.ip = ip,
                                 !.email = email, !.pw = pw, !.bodyOk = bodyOk,
                                 !.cookie = cookie,
                                 !.blank = bodyOk /\ path = "/register"
                                              /\ (email = Empty \/ pw = Empty)]]
    /\ reg' = IF path = "/register" /\ email \in DOMAIN reg
              THEN [reg EXCEPT ![email].arrived = reg[email].arrived + 1] ELSE reg
    /\ UNCHANGED <<users, sessions, rate, issued, owner, sessAge, seen, faulted, age, firstIncr>>

\* authMiddleware: cookie check, then rdb.Get("session:"+token).
authMiddleware(s, getOk) ==
    LET r == [req[s] EXCEPT !.authRan = TRUE,
                            !.authLive = /\ req[s].cookie \in issued
                                         /\ sessAge[req[s].cookie] < SessionTTL]
    IN
    /\ req[s].pc = "auth"
    /\ IF r.cookie = NoCookie
       THEN req' = [req EXCEPT ![s] = NoCookieReject(r)]
       ELSE IF getOk /\ r.cookie \in Tokens /\ sessions[r.cookie] # NoKey
       THEN req' = [req EXCEPT ![s] = SessionResolved(r, sessions[r.cookie].email)]
       ELSE req' = [req EXCEPT ![s] = SessionReject([r EXCEPT !.storeErr = ~getOk])]
    /\ UNCHANGED <<users, sessions, rate, issued, owner, sessAge, seen, faulted, age, firstIncr, reg>>

\* rateLimitMiddleware up to and including rdb.Incr, and through to the
\* decision when no Expire call follows.
rateLimitIncr(s, out) ==
    LET k == req[s].ip
        applied == out # "err"
        fresh == rate[k].count = 0
        newCount == rate[k].count + 1
        nFault == IF fresh THEN out # "ok" ELSE faulted[k] \/ out # "ok"
        nSeen == IF nFault THEN 0 ELSE IF fresh THEN 1 ELSE seen[k] + 1
        r == [req[s] EXCEPT !.counted = applied, !.over = nSeen > Limit,
                            !.rlFault = nFault, !.incrErr = out # "ok"]
    IN
    /\ req[s].pc = "rl"
    /\ rate' = IF applied THEN [rate EXCEPT ![k].count = newCount] ELSE rate
    /\ seen' = [seen EXCEPT ![k] = nSeen]
    /\ faulted' = [faulted EXCEPT ![k] = nFault]
    /\ age' = IF fresh THEN [age EXCEPT ![k] = 0] ELSE age
    /\ firstIncr' = IF fresh /\ applied THEN [firstIncr EXCEPT ![k] = out] ELSE firstIncr
    /\ req' = [req EXCEPT ![s] =
                 IF out # "ok" THEN RateLimitFailOpen(r)
                 ELSE IF newCount = 1 THEN [r EXCEPT !.count = newCount, !.pc = "expire"]
                 ELSE RateLimitDecide([r EXCEPT !.count = newCount])]
    /\ UNCHANGED <<users, sessions, issued, owner, sessAge, reg>>

\* rateLimitMiddleware, count == 1: rdb.Expire(key, time.Minute), its result
\* is dropped; then the decision.
rateLimitExpire(s, out) ==
    LET k == req[s].ip IN
    /\ req[s].pc = "expire"
    /\ rate' = IF out # "err" /\ rate[k].count > 0
               THEN [rate EXCEPT ![k].ttl = RateWindow] ELSE rate
    /\ faulted' = [faulted EXCEPT ![k] = faulted[k] \/ out # "ok"]
    /\ seen' = [seen EXCEPT ![k] = IF out # "ok" THEN 0 ELSE seen[k]]
    /\ req' = [req EXCEPT ![s] =
                 RateLimitDecide([req[s] EXCEPT !.rlFault = req[s].rlFault \/ out # "ok"])]
    /\ UNCHANGED <<users, sessions, issued, owner, sessAge, age, firstIncr, reg>>

\* healthHandler inside loggingMiddleware: two pings, a JSON status map.
healthHandler(s, dbUp, redisUp) ==
    /\ req[s].pc = "handler"
    /\ req[s].path = "/health"
    /\ req' = [req EXCEPT ![s] =
                 LogEnd(Write(req[s], <<"service=up",
                                        IF dbUp THEN "database=up" ELSE "database=down",
                                        IF redisUp THEN "redis=up" ELSE "redis=down">>))]
    /\ UNCHANGED <<users, sessions, rate, issued, owner, sessAge, seen, faulted, age, firstIncr, reg>>

\* registerHandler inside loggingMiddleware: decode, hash, INSERT (atomic in
\* the database: the UNIQUE constraint on email rejects a second row).
registerHandler(s, salt, hashOk, out) ==
    LET r == req[s]
        e == r.email
        free == ~UniqueViolation(users, e)
        hash == GenerateFromPassword(salt, r.pw)
        h == [r EXCEPT !.steps = <<"bcrypt.GenerateFromPassword">>,
                       !.known = ~free,
                       !.valid = /\ ~free
                                 /\ CompareHashAndPassword(StoredHash(users, e), r.pw)]
    IN
    /\ r.pc = "handler"
    /\ r.path = "/register"
    /\ IF ~r.bodyOk
       THEN /\ req' = [req EXCEPT ![s] = RegisterBadBody(r)]
            /\ UNCHANGED <<users, reg>>
       ELSE IF ~hashOk
       THEN /\ req' = [req EXCEPT ![s] = RegisterHashError([h EXCEPT !.hashErr = TRUE])]
            /\ reg' = [reg EXCEPT ![e].failed = reg[e].failed + 1, ![e].dirty = TRUE]
            /\ UNCHANGED users
       ELSE /\ users' = IF out # "err" THEN ExecInsert(users, e, hash) ELSE users
            /\ IF out = "ok" /\ free
               THEN /\ req' = [req EXCEPT ![s] = RegisterCreated(h)]
                    /\ reg' = [reg EXCEPT ![e].created = reg[e].created + 1]
               ELSE /\ req' = [req EXCEPT ![s] =
                                 RegisterConflict([h EXCEPT !.storeErr = out # "ok"])]
                    /\ reg' = [reg EXCEPT ![e].conflict = reg[e].conflict + 1,
                                          ![e].dirty = reg[e].dirty \/ out # "ok"]
    /\ UNCHANGED <<sessions, rate, issued, owner, sessAge, seen, faulted, age, firstIncr>>

\* loginHandler up to the session store: decode, SELECT password_hash,
\* bcrypt.CompareHashAndPassword.
loginQuery(s, dbOk) ==
    LET r0 == req[s]
        isKnown == HasEmail(users, r0.email)
        r == [r0 EXCEPT !.known = isKnown,
                        !.valid = \E i \in 1..Len(users) :
                                     /\ users[i].email = r0.email
                                     /\ users[i].password_hash[3] = r0.pw]
        q == [r EXCEPT !.steps = <<"db.QueryRow">>]
        c == [r EXCEPT !.steps = <<"db.QueryRow", "bcrypt.CompareHashAndPassword">>]
    IN
    /\ r0.pc = "handler"
    /\ r0.path = "/login"
    /\ req' = [req EXCEPT ![s] =
         IF ~r.bodyOk THEN LoginBadBody(r)
         ELSE IF ~dbOk THEN LoginNoRow([q EXCEPT !.storeErr = TRUE])
         ELSE IF ~isKnown THEN LoginNoRow(q)
         ELSE IF ~CompareHashAndPassword(StoredHash(users, r.email), r.pw)
         THEN LoginWrongPassword(c)
         ELSE [c EXCEPT !.pc = "session"]]
    /\ UNCHANGED <<users, sessions, rate, issued, owner, sessAge, seen, faulted, age, firstIncr, reg>>

\* loginHandler from uuid.New() on: rdb.Set("session:"+id, email, 24h), then
\* the cookie and the body.  uuid.New() never repeats a token.
loginSet(s, out) ==
    LET r == req[s]
        tok == NewToken
    IN
    /\ r.pc = "session"
    /\ \E t \in Tokens : owner[t] = NoEmail
    /\ sessions' = IF out # "err" THEN [sessions EXCEPT ![tok] = SessionEntry(r.email)]
                   ELSE sessions
    /\ owner' = IF out # "err" THEN [owner EXCEPT ![tok] = r.email] ELSE owner
    /\ issued' = IF out = "ok" THEN issued \cup {tok} ELSE issued
    /\ req' = [req EXCEPT ![s] =
         IF out = "ok" THEN LoginOK(r, tok)
         ELSE LoginSessionError([r EXCEPT !.storeErr = TRUE])]
    /\ UNCHANGED <<users, rate, sessAge, seen, faulted, age, firstIncr, reg>>

\* meHandler inside loggingMiddleware: echo the identity from the context.
\* Value("userEmail").(string) panics on a context without the value; the
\* panic unwinds through loggingMiddleware (no log line) and net/http drops
\* the connection without a response.
meHandler(s) ==
    /\ req[s].pc = "handler"
    /\ req[s].path = "/me"
    /\ req' = [req EXCEPT ![s] =
                 IF req[s].ctxEmail = NoEmail
                 THEN MePanic(req[s])
                 ELSE LogEnd(Write([req[s] EXCEPT !.steps = <<"meHandler">>],
                                   <<"Hello ", req[s].ctxEmail>>))]
    /\ UNCHANGED <<users, sessions, rate, issued, owner, sessAge, seen, faulted, age, firstIncr, reg>>

\* Redis key expiry as d seconds pass: a key whose time to live runs out is
\* deleted; a key without one stays.
Advance(d) ==
    LET gone(k) == rate[k].count > 0 /\ rate[k].ttl # NoTTL /\ rate[k].ttl <= d
        sgone(t) == sessions[t] # NoKey /\ sessions[t].ttl <= d
    IN
    /\ d >= 1
    /\ rate' = [k \in IPs |->
                  IF gone(k) THEN [count |-> 0, ttl |-> NoTTL]
                  ELSE IF rate[k].count > 0 /\ rate[k].ttl # NoTTL
                  THEN [rate[k] EXCEPT !.ttl = rate[k].ttl - d]
                  ELSE rate[k]]
    /\ sessions' = [t \in Tokens |->
                  IF sessions[t] = NoKey \/ sgone(t) THEN NoKey
                  ELSE [sessions[t] EXCEPT !.ttl = sessions[t].ttl - d]]
    /\ seen' = [k \in IPs |-> IF gone(k) THEN 0 ELSE seen[k]]
    /\ faulted' = [k \in IPs |-> IF gone(k) THEN FALSE ELSE faulted[k]]
    /\ age' = [k \in IPs |->
                  IF gone(k) \/ rate[k].count = 0 THEN 0
                  ELSE Min(age[k] + d, RateWindow)]
    /\ firstIncr' = [k \in IPs |-> IF gone(k) THEN "-" ELSE firstIncr[k]]
    /\ sessAge' = [t \in Tokens |->
                  IF t \in issued THEN Min(sessAge[t] + d, SessionTTL) ELSE 0]
    /\ UNCHANGED <<users, req, issued, owner, reg>>

\* ---------------------------------------------- the rate-limit specification
\* A client hits /health and /me (without a session); the counter store may
\* fail on any call.
\* The clock is read just before a window closes, and when it has closed.
RateDeltas == {RateWindow - 1, RateWindow}

NextRate ==
    \/ \E s \in Slots, ip \in Clients :
          Arrive(s, "/health", ip, NoEmail, "-", TRUE, NoCookie, MaxCount)
    \/ \E s \in Slots, ip \in Clients, c \in {NoCookie, BogusCookie} :
          Arrive(s, "/me", ip, NoEmail, "-", TRUE, c, MaxCount)
    \/ \E s \in Slots, ok \in BOOLEAN : authMiddleware(s, ok)
    \/ \E s \in Slots, out \in Outcomes : rateLimitIncr(s, out)
    \/ \E s \in Slots, out \in Outcomes : rateLimitExpire(s, out)
    \/ \E s \in Slots, dbUp \in BOOLEAN, redisUp \in BOOLEAN : healthHandler(s, dbUp, redisUp)
    \/ \E d \in RateDeltas : Advance(d)

SpecRate == Init /\ [][NextRate]_vars

\* ------------------------------------------- the registration specification
\* Concurrent /register requests, well-formed and malformed; Postgres and
\* bcrypt may fail on any call; the counter store is healthy.

\* One contended email, one bystander that registers once.
RegCap(e) == IF e = "a@x.com" THEN MaxRegs ELSE 1

NextReg ==
    \/ \E s \in Slots, ip \in Clients, e \in Emails, p \in Passwords :
          /\ reg[e].arrived < RegCap(e)
          /\ Arrive(s, "/register", ip, e, p, TRUE, NoCookie, MaxCountAuth)
    \/ \E s \in Slots, ip \in Clients :
          Arrive(s, "/register", ip, NoEmail, "-", FALSE, NoCookie, MaxCountAuth)
    \/ \E s \in Slots : rateLimitIncr(s, "ok")
    \/ \E s \in Slots : rateLimitExpire(s, "ok")
    \/ \E s \in Slots, salt \in Salts, hashOk \in BOOLEAN, out \in Outcomes :
          registerHandler(s, salt, hashOk, out)
    \/ Advance(RateWindow)

SpecReg == Init /\ [][NextReg]_vars

\* --------------------------------------- the request-body specification
\* /register with bodies that decode but leave a field empty:
\* {"password":"pw1"} and {"email":"b@x.com"} (a missing field decodes to
\* the empty string), next to a complete body and one that does not decode.
BlankForms == {[email |-> Empty, pw |-> "pw1"], [email |-> "b@x.com", pw |-> Empty]}
FullForms == {[email |-> "a@x.com", pw |-> "pw1"]}

NextForms ==
    \/ \E s \in Slots, ip \in Clients, f \in BlankForms \cup FullForms :
          /\ reg[f.email].arrived < 1
          /\ Arrive(s, "/register", ip, f.email, f.pw, TRUE, NoCookie, MaxCountAuth)
    \/ \E s \in Slots, ip \in Clients :
          Arrive(s, "/register", ip, NoEmail, "-", FALSE, NoCookie, MaxCountAuth)
    \/ \E s \in Slots : rateLimitIncr(s, "ok")
    \/ \E s \in Slots : rateLimitExpire(s, "ok")
    \/ \E s \in Slots, salt \in Salts, hashOk \in BOOLEAN, out \in Outcomes :
          registerHandler(s, salt, hashOk, out)
    \/ Advance(RateWindow)

SpecForms == Init /\ [][NextForms]_vars

\* ---------------------------------------------- the logger specification
\* loggingMiddleware around any http.Handler: between entry and return the
\* wrapped handler calls WriteHeader and Write on the wrapper, in any order
\* and any number of times.
HandlerCodes == {StatusOK, StatusCreated, StatusInternalServerError}

\* loggingMiddleware up to next.ServeHTTP(ww, r).
loggingServe(s) ==
    /\ FirstFree(s)
    /\ req' = [req EXCEPT ![s] =
                 [LogBegin(IdleReq) EXCEPT !.pc = "handler", !.path = "*", !.fwd = TRUE]]
    /\ UNCHANGED <<users, sessions, rate, issued, owner, sessAge, seen, faulted, age,
                   firstIncr, reg>>

\* The wrapped handler calls ww.WriteHeader(code).
nextWriteHeader(s, code) ==
    /\ req[s].pc = "handler" /\ req[s].path = "*"
    /\ req' = [req EXCEPT ![s] = WriteHeader(req[s], code)]
    /\ UNCHANGED <<users, sessions, rate, issued, owner, sessAge, seen, faulted, age,
                   firstIncr, reg>>

\* The wrapped handler calls ww.Write (the embedded ResponseWriter's Write).
nextWrite(s) ==
    /\ req[s].pc = "handler" /\ req[s].path = "*"
    /\ req' = [req EXCEPT ![s] = Write(req[s], <<"body">>)]
    /\ UNCHANGED <<users, sessions, rate, issued, owner, sessAge, seen, faulted, age,
                   firstIncr, reg>>

\* next.ServeHTTP returns; loggingMiddleware prints its line.
loggingReturn(s) ==
    /\ req[s].pc = "handler" /\ req[s].path = "*"
    /\ req' = [req EXCEPT ![s] = LogEnd(req[s])]
    /\ UNCHANGED <<users, sessions, rate, issued, owner, sessAge, seen, faulted, age,
                   firstIncr, reg>>

NextLog ==
    \/ \E s \in Slots : loggingServe(s)
    \/ \E s \in Slots, code \in HandlerCodes : nextWriteHeader(s, code)
    \/ \E s \in Slots : nextWrite(s)
    \/ \E s \in Slots : loggingReturn(s)

SpecLog == Init /\ [][NextLog]_vars

\* ------------------------------------ the credential/session specification
\* /register, /login and /me: each account registers once with its own
\* password, then logins (any email, any password) and /me requests (no
\* cookie, garbage, any cookie a login handed out); Postgres and the session
\* keys may fail on any call; the counter store is healthy.
\* The clock is read just before a session ends, and when it has ended.
SessDeltas == {SessionTTL - 1, SessionTTL}
OwnPassword(e) == IF e = "a@x.com" THEN "pw1" ELSE "pw2"

\* Tokens still unused, beyond those the logins in flight will draw.
TokensLeft ==
    Cardinality({t \in Tokens : owner[t] = NoEmail})
      - Cardinality({s \in Slots : req[s].path = "/login" /\ req[s].pc # "done"})

Next ==
    \/ \E s \in Slots, ip \in Clients, e \in Emails :
          /\ reg[e].arrived < 1
          /\ Arrive(s, "/register", ip, e, OwnPassword(e), TRUE, NoCookie, MaxCountAuth)
    \/ \E s \in Slots, ip \in Clients :
          /\ TokensLeft > 0
          /\ Arrive(s, "/login", ip, NoEmail, "-", FALSE, NoCookie, MaxCountAuth)
    \/ \E s \in Slots, ip \in Clients, e \in Emails, p \in Passwords :
          /\ TokensLeft > 0
          /\ Arrive(s, "/login", ip, e, p, TRUE, NoCookie, MaxCountAuth)
    \/ \E s \in Slots, ip \in Clients, c \in {NoCookie, BogusCookie} \cup issued :
          Arrive(s, "/me", ip, NoEmail, "-", TRUE, c, MaxCountAuth)
    \/ \E s \in Slots, ok \in BOOLEAN : authMiddleware(s, ok)
    \/ \E s \in Slots : rateLimitIncr(s, "ok")
    \/ \E s \in Slots : rateLimitExpire(s, "ok")
    \/ \E s \in Slots, salt \in Salts, out \in {"ok", "err"} :
          registerHandler(s, salt, TRUE, out)
    \/ \E s \in Slots, dbOk \in BOOLEAN : loginQuery(s, dbOk)
    \/ \E s \in Slots, out \in Outcomes : loginSet(s, out)
    \/ \E s \in Slots : meHandler(s)
    \/ \E d \in SessDeltas : Advance(d)

Spec == Init /\ [][Next]_vars

\* ------------------------------------------ the unresponsive-store specification
\* /register and /login for one account while Postgres may stop answering.
\* db.Exec and db.QueryRow are called without a context, and nothing else
\* in the handler bounds the call: a query that never returns leaves the
\* serving goroutine inside the call.
dbCallBlocks(s) ==
    /\ req[s].pc = "handler"
    /\ req[s].path \in {"/register", "/login"}
    /\ req[s].bodyOk
    /\ req' = [req EXCEPT ![s].pc = "blocked"]
    /\ UNCHANGED <<users, sessions, rate, issued, owner, sessAge, seen, faulted, age,
                   firstIncr, reg>>

\* The steps of the request in slot s when every store call returns.
Progress(s) ==
    \/ rateLimitIncr(s, "ok")
    \/ rateLimitExpire(s, "ok")
    \/ \E salt \in Salts : registerHandler(s, salt, TRUE, "ok")
    \/ loginQuery(s, TRUE)
    \/ loginSet(s, "ok")

NextHang ==
    \/ \E s \in Slots, ip \in Clients :
          /\ reg["a@x.com"].arrived < 1
          /\ Arrive(s, "/register", ip, "a@x.com", "pw1", TRUE, NoCookie, MaxCountAuth)
    \/ \E s \in Slots, ip \in Clients, p \in Passwords :
          /\ TokensLeft > 0
          /\ Arrive(s, "/login", ip, "a@x.com", p, TRUE, NoCookie, MaxCountAuth)
    \/ \E s \in Slots : Progress(s)
    \/ \E s \in Slots : dbCallBlocks(s)
    \/ Advance(SessionTTL)

\* The Go scheduler runs every runnable goroutine, and a store call that is
\* answered returns: a request that can take a step eventually takes one.
SpecHang == Init /\ [][NextHang]_vars /\ \A s \in Slots : WF_vars(Progress(s))

\* ------------------------------------------- the whole-service specification
\* One account on every endpoint, up to and beyond the limit of a window:
\* registrations (the second one a duplicate, possibly with another
\* password), logins, /me with no cookie, a garbage cookie and every cookie a
\* login handed out, /health.  Hashing, the INSERT and the session lookup may
\* fail; every other store call succeeds.  The clock jumps to the end of the
\* sessions' lifetime.
NextQuota ==
    \/ \E s \in Slots, ip \in Clients, p \in Passwords :
          /\ reg["a@x.com"].arrived < 2
          /\ Arrive(s, "/register", ip, "a@x.com", p, TRUE, NoCookie, MaxCount)
    \/ \E s \in Slots, ip \in Clients :
          /\ TokensLeft > 0
          /\ Arrive(s, "/login", ip, "a@x.com", "pw1", TRUE, NoCookie, MaxCount)
    \/ \E s \in Slots, ip \in Clients, c \in {NoCookie, BogusCookie} \cup issued :
          Arrive(s, "/me", ip, NoEmail, "-", TRUE, c, MaxCount)
    \/ \E s \in Slots, ip \in Clients :
          Arrive(s, "/health", ip, NoEmail, "-", TRUE, NoCookie, MaxCount)
    \/ \E s \in Slots, ok \in BOOLEAN : authMiddleware(s, ok)
    \/ \E s \in Slots : rateLimitIncr(s, "ok")
    \/ \E s \in Slots : rateLimitExpire(s, "ok")
    \/ \E s \in Slots, salt \in Salts, hashOk \in BOOLEAN, out \in {"ok", "err"} :
          registerHandler(s, salt, hashOk, out)
    \/ \E s \in Slots : loginQuery(s, TRUE)
    \/ \E s \in Slots : loginSet(s, "ok")
    \/ \E s \in Slots : meHandler(s)
    \/ \E s \in Slots : healthHandler(s, TRUE, TRUE)
    \/ Advance(SessionTTL)

SpecQuota == Init /\ [][NextQuota]_vars

\* ================================================================ claims
\* A request that has left rateLimitMiddleware.
Decided(s) == req[s].pc \in {"handler", "session", "done"}

\* The response as the client sees it.
Response(s) == <<req[s].status, req[s].body, req[s].setCookie>>

\* C1: while the counter store is reachable, the first 10 requests of a
\* client that reach rateLimitMiddleware in a window are forwarded to the
\* next handler; the 11th and every later one in that window gets 429 and is
\* not forwarded.
C1_QuotaPerWindow ==
    \A s \in Slots :
        (Decided(s) /\ req[s].counted /\ ~req[s].rlFault) =>
            IF req[s].over
            THEN req[s].status = StatusTooManyRequests /\ ~req[s].fwd
            ELSE req[s].fwd /\ req[s].status # StatusTooManyRequests

\* The 11th request of a fault-free window has been rejected.
C1_Witness ==
    \E s \in Slots :
        /\ req[s].pc = "done" /\ req[s].counted /\ ~req[s].rlFault
        /\ req[s].over /\ req[s].status = StatusTooManyRequests
        /\ seen[req[s].ip] = Limit + 1

\* C2 (as claimed): every rate counter that the first request of a window
\* created (its Incr returned 1), once that request is past its Expire call,
\* carries an expiry, one window-length counted from that first request.
C2_CounterCarriesExpiry ==
    \A k \in IPs :
        (/\ rate[k].count > 0
         /\ firstIncr[k] = "ok"
         /\ ~\E s \in Slots : req[s].pc = "expire" /\ req[s].ip = k) =>
            /\ rate[k].ttl # NoTTL
            /\ age[k] + rate[k].ttl = RateWindow

\* C3 (as claimed): the AuthGate's cookie check and session lookup happen
\* only for requests the RateLimiter has already counted.
C3_RateLimitBeforeAuth ==
    \A s \in Slots : req[s].authRan => req[s].counted

\* C4 (as claimed): a request answered 429 by the RateLimiter has a
\* request-log line.
C4_RejectedIsLogged ==
    \A s \in Slots :
        (req[s].pc = "done" /\ req[s].status = StatusTooManyRequests) => req[s].logged = 1

\* Completed /register requests for email e that reached registerHandler.
RegDone(e) == reg[e].created + reg[e].conflict + reg[e].failed

C7_FailOpen ==
    \A s \in Slots :
        req[s].incrErr => req[s].fwd /\ req[s].status # StatusTooManyRequests

\* The counter stands above the limit and a request whose Incr failed was
\* served.
C7_Witness ==
    \E s \in Slots :
        /\ req[s].incrErr /\ req[s].pc = "done" /\ req[s].status = StatusOK
        /\ rate[req[s].ip].count > Limit

\* C8: when the store call a request depends on fails, /register does not
\* answer 201, /login does not answer 200 and sets no cookie, and the
\* AuthGate answers 401 without calling the protected handler.
C8_FailClosed ==
    \A s \in Slots :
        req[s].storeErr =>
            /\ req[s].pc = "done"
            /\ req[s].path = "/register" => req[s].status # StatusCreated
            /\ req[s].path = "/login" =>
                  req[s].status # StatusOK /\ req[s].setCookie = NoCookie
            /\ req[s].path = "/me" =>
                  /\ req[s].status = StatusUnauthorized
                  /\ ~req[s].fwd /\ req[s].steps = <<>> /\ req[s].ctxEmail = NoEmail

\* A login with the right password lost its session write, and a /me request
\* with a live token lost its lookup.
C8_Witness ==
    \E s1, s2 \in Slots :
        /\ req[s1].path = "/login" /\ req[s1].valid /\ req[s1].storeErr
        /\ req[s1].status = StatusInternalServerError
        /\ req[s2].path = "/me" /\ req[s2].storeErr /\ req[s2].authLive
        /\ sessions[req[s2].cookie] # NoKey

\* A /login that failed because the email has no row.
UnknownEmail(s) ==
    /\ req[s].path = "/login" /\ req[s].pc = "done" /\ req[s].bodyOk
    /\ req[s].steps # <<>> /\ ~req[s].storeErr /\ ~req[s].known

\* A /login that failed because the password does not match the row.
WrongPassword(s) ==
    /\ req[s].path = "/login" /\ req[s].pc = "done" /\ req[s].bodyOk
    /\ req[s].steps # <<>> /\ ~req[s].storeErr /\ req[s].known /\ ~req[s].valid

\* C9: a /login for an unknown email and a /login with a wrong password get
\* the same response: 401, the same body, no cookie.
C9_SameFailureResponse ==
    \A s1, s2 \in Slots :
        (UnknownEmail(s1) /\ WrongPassword(s2)) =>
            /\ Response(s1) = Response(s2)
            /\ req[s1].status = StatusUnauthorized
            /\ req[s1].setCookie = NoCookie

\* Both failures are on record side by side, for the same submitted email.
C9_Witness ==
    \E s1, s2 \in Slots :
        /\ UnknownEmail(s1) /\ WrongPassword(s2)
        /\ req[s1].email # req[s2].email

\* C10 (as claimed): both failures run the same costly steps, the slow-hash
\* comparison included.
C10_SameCostlySteps ==
    \A s1, s2 \in Slots :
        (UnknownEmail(s1) /\ WrongPassword(s2)) => req[s1].steps = req[s2].steps

\* A /me request that has been answered.
MeDone(s) == req[s].path = "/me" /\ req[s].pc = "done"

\* C11 (as claimed): /me without a cookie gets 401 "Unauthorized"; with a
\* token that is not in the session store 401 "Session expired or invalid";
\* with a live token 200 and the email stored for the token; meHandler does
\* not run in the 401 cases.
C11_MeAsClaimed ==
    \A s \in Slots :
        MeDone(s) =>
            IF req[s].cookie = NoCookie
            THEN /\ Response(s) = <<StatusUnauthorized, <<"Unauthorized">>, NoCookie>>
                 /\ req[s].steps = <<>>
            ELSE IF ~req[s].authLive
            THEN /\ Response(s) =
                       <<StatusUnauthorized, <<"Session expired or invalid">>, NoCookie>>
                 /\ req[s].steps = <<>>
            ELSE /\ Response(s) = <<StatusOK, <<"Hello ", owner[req[s].cookie]>>, NoCookie>>

\* C11 (amended): as claimed for the two 401 cases; a request with a live
\* token gets 401 "Session expired or invalid" when its session lookup
\* fails, 429 when the RateLimiter rejects it, and otherwise 200 with the
\* email stored for the token; meHandler runs in the 200 case only.
C11_MeResponses ==
    \A s \in Slots :
        MeDone(s) =>
            IF req[s].cookie = NoCookie
            THEN /\ Response(s) = <<StatusUnauthorized, <<"Unauthorized">>, NoCookie>>
                 /\ req[s].steps = <<>>
            ELSE IF ~req[s].authLive \/ req[s].storeErr
            THEN /\ Response(s) =
                       <<StatusUnauthorized, <<"Session expired or invalid">>, NoCookie>>
                 /\ req[s].steps = <<>>
            ELSE IF req[s].over
            THEN /\ Response(s) =
                       <<StatusTooManyRequests, <<"Too Many Requests">>, NoCookie>>
                 /\ req[s].steps = <<>>
            ELSE /\ Response(s) = <<StatusOK, <<"Hello ", owner[req[s].cookie]>>, NoCookie>>
                 /\ req[s].steps = <<"meHandler">>

\* One live token, two /me requests: one was answered 200 with the owner's
\* email, the other was rejected by the RateLimiter.
C11_Witness ==
    \E s1, s2 \in Slots :
        /\ MeDone(s1) /\ MeDone(s2)
        /\ req[s1].cookie \in issued /\ req[s2].cookie = req[s1].cookie
        /\ req[s1].authLive /\ req[s2].authLive
        /\ req[s1].status = StatusOK /\ req[s1].body = <<"Hello ", "a@x.com">>
        /\ req[s2].status = StatusTooManyRequests

\* C12 (as claimed): a /register request whose email or password is empty
\* or missing, and that met no hashing or store error, is answered 400, and
\* the credential store never holds a row with an empty email or a digest of
\* the empty password.
C12_BothFieldsRequired ==
    /\ \A s \in Slots :
          (/\ req[s].path = "/register" /\ req[s].pc = "done" /\ req[s].fwd
           /\ req[s].blank /\ ~req[s].hashErr /\ ~req[s].storeErr) =>
              req[s].status = StatusBadRequest
    /\ \A i \in 1..Len(users) :
          users[i].email # Empty /\ ~CompareHashAndPassword(users[i].password_hash, Empty)

\* C13 (as claimed): /register answers 409 only when a row with the
\* submitted email exists; a request whose INSERT failed for another reason,
\* or whose hashing failed, is answered 500.
C13_ConflictOnlyOnDuplicate ==
    \A s \in Slots :
        (req[s].path = "/register" /\ req[s].pc = "done") =>
            /\ req[s].status = StatusConflict => HasEmail(users, req[s].email)
            /\ (req[s].storeErr \/ req[s].hashErr) =>
                  req[s].status = StatusInternalServerError

\* While its store is reachable the counter of a client equals the number
\* of increments made in the current window, concurrent ones included.
CountIsIncrements ==
    \A k \in IPs : (rate[k].count > 0 /\ ~faulted[k]) => rate[k].count = seen[k]

\* C14 (as claimed): the stored count equals the number of requests
\* received from the client in the window: it equals the increments made,
\* and every answered request, on any endpoint, whose counter store was
\* reachable is among them.
C14_CountIsRequestsReceived ==
    /\ CountIsIncrements
    /\ \A s \in Slots : (req[s].pc = "done" /\ ~req[s].incrErr) => req[s].counted

\* The status the client receives: the first one written, or 200 when the
\* handler returned without writing any.
Delivered(r) == IF r.status = 0 THEN StatusOK ELSE r.status

\* C15 (as claimed): a request that reached loggingMiddleware and whose
\* handler returned has exactly one log line, and the status in the line is
\* the status the client received.
C15_LogMatchesResponse ==
    \A s \in Slots :
        (req[s].fwd /\ req[s].pc = "done") =>
            /\ req[s].logged = 1
            /\ req[s].logStatus = Delivered(req[s])

\* C16 (as claimed): every request that has entered the pipeline is
\* eventually answered, whether or not its store calls return.
C16_RequestsComplete ==
    \A s \in Slots : (req[s].pc \notin {"idle", "done"}) ~> (req[s].pc = "done")

\* C17: a step of the service never changes or removes a row of the users
\* table: every row stays where it is with the digest it was created with,
\* and the digest a login reads for an email stays the same.
C17_CredentialNeverChanges ==
    [][/\ \A i \in 1..Len(users) : i <= Len(users') /\ users'[i] = users[i]
       /\ \A e \in Emails :
             HasEmail(users, e) =>
                 HasEmail(users', e) /\ StoredHash(users', e) = StoredHash(users, e)]_vars

\* A second /register for the email, with another password, was answered
\* 409, and a later /login with the first password was answered 200.
C17_Witness ==
    \E s1, s2 \in Slots :
        /\ req[s1].path = "/register" /\ req[s1].pc = "done"
        /\ req[s1].known /\ ~req[s1].valid /\ ~req[s1].storeErr
        /\ req[s1].status = StatusConflict
        /\ req[s2].path = "/login" /\ req[s2].pc = "done" /\ req[s2].email = req[s1].email
        /\ req[s2].status = StatusOK
        /\ Len(users) = 1

\* C18: no /register request carries a session cookie in its response; a
\* step of a /register request leaves the session store as it is; and a
\* session key appears only in the step of a /login request that is past the
\* digest comparison, with that login's email as its value.
C18_RegisterMakesNoSession ==
    /\ [](\A s \in Slots : req[s].path = "/register" => req[s].setCookie = NoCookie)
    /\ [][/\ \A s \in Slots :
               (req[s].path = "/register" /\ req'[s] # req[s]) => sessions' = sessions
          /\ \A t \in Tokens :
               (sessions[t] = NoKey /\ sessions'[t] # NoKey) =>
                   \E s \in Slots :
                       /\ req[s].path = "/login" /\ req[s].pc = "session"
                       /\ req[s].valid /\ req'[s].pc = "done"
                       /\ sessions'[t].email = req[s].email]_vars

\* With a session of one account in the store, another account registered
\* and got 201 without a cookie.
C18_Witness ==
    \E s \in Slots, t \in Tokens :
        /\ req[s].path = "/register" /\ req[s].pc = "done"
        /\ req[s].status = StatusCreated /\ req[s].setCookie = NoCookie
        /\ sessions[t] # NoKey /\ sessions[t].email # req[s].email

\* C19: a request answered 429 is finished without having been forwarded:
\* no handler step, no log line.  The step that answers 429 adds one to the
\* client's counter and leaves the counter's expiry, every other counter,
\* the users table and the session store as they are; the steps a request
\* takes before it reaches the counter change no store at all.
C19_RejectedChangesOnlyCount ==
    /\ [](\A s \in Slots :
             req[s].status = StatusTooManyRequests =>
                 /\ req[s].pc = "done" /\ ~req[s].fwd
                 /\ req[s].steps = <<>> /\ req[s].logged = 0)
    /\ [][\A s \in Slots :
             /\ (req[s].status # StatusTooManyRequests
                   /\ req'[s].status = StatusTooManyRequests) =>
                    /\ users' = users /\ sessions' = sessions
                    /\ rate' = [rate EXCEPT ![req[s].ip].count = rate[req[s].ip].count + 1]
             /\ (req'[s] # req[s] /\ req[s].pc \in {"idle", "done", "auth"}) =>
                    /\ users' = users /\ sessions' = sessions /\ rate' = rate]_vars

\* With a Credential and a live session in the stores, a /register request
\* was answered 429.
C19_Witness ==
    \E s \in Slots, t \in Tokens :
        /\ req[s].path = "/register" /\ req[s].pc = "done"
        /\ req[s].status = StatusTooManyRequests
        /\ Len(users) = 1 /\ sessions[t] # NoKey
        /\ rate[req[s].ip].count > Limit /\ rate[req[s].ip].ttl = RateWindow

\* C20: a /me request that is in, or has been through, meHandler went
\* through authMiddleware first, carries a string identity in its context,
\* and that identity is the email stored for the request's own token;
\* meHandler's type assertion did not panic and the body echoes that email.
C20_MeHasOwnIdentity ==
    \A s \in Slots :
        (req[s].path = "/me" /\ (req[s].pc = "handler" \/ req[s].steps # <<>>)) =>
            /\ req[s].authRan
            /\ req[s].cookie \in issued
            /\ req[s].ctxEmail # NoEmail
            /\ req[s].ctxEmail = owner[req[s].cookie]
            /\ req[s].steps \in {<<>>, <<"meHandler">>}
            /\ req[s].steps = <<"meHandler">> =>
                  req[s].body = <<"Hello ", owner[req[s].cookie]>>

\* Two /me requests with the tokens of two accounts: one has been answered
\* with its own email while the other is in front of meHandler with the
\* other email in its context.
C20_Witness ==
    \E s1, s2 \in Slots :
        /\ req[s1].path = "/me" /\ req[s2].path = "/me"
        /\ req[s1].cookie \in issued /\ req[s2].cookie \in issued
        /\ owner[req[s1].cookie] # owner[req[s2].cookie]
        /\ req[s1].steps = <<"meHandler">>
        /\ req[s1].body = <<"Hello ", owner[req[s1].cookie]>>
        /\ req[s2].pc = "handler" /\ req[s2].ctxEmail = owner[req[s2].cookie]

====
